---- MODULE Spec2Model ----
(***************************************************************************)
(* Tournament / match scheduler of the clawosseum arena server.            *)
(* The persisted document `state` (roster, lobby, bracket, match history,  *)
(* current match, season and all-time ledgers), the pending resolution     *)
(* timers, the debounced save timer and the state file on disk.            *)
(***************************************************************************)
EXTENDS Integers, Sequences, FiniteSets, TLC

\* ---------------------------------------------------------------- bounds
MaxAgents == 3
MaxTime == 2
MaxCrashes == 1
MaxSeason == 2

\* the arena with its manager: agents that ever arrive, restarts performed
MaxArrivals == 5

MaxRestarts == 2

\* the wallets that try to claim an agent
MaxWallets == 3

\* ---------------------------------------------------------------- configuration
\* The server reads these from process.env; the arena modelled here is one
\* with LOBBY_MAX_AGENTS=3 and a lobby wait of one clock unit.
LOBBY_MIN_AGENTS == 2
LOBBY_MAX_AGENTS == 3
LOBBY_WAIT_MS == 1
ARENA_PERMADEATH == TRUE

\* tools/arena-manager: RESTART_COOLDOWN_MS, in clock ticks
RESTART_COOLDOWN_MS == 0

\* CLAIM_TTL_MS, in clock ticks
CLAIM_TTL_MS == 0

\* Display names offered to the endpoints; "" is the missing name.
Names == {"", "a", "A", "b", "c"}

\* name.toLowerCase()
toLowerCase(n) == IF n = "A" THEN "a" ELSE n

\* ---------------------------------------------------------------- state
VARIABLES state, timers, ids, saveTimer, disk, clock, crashes, manager, claim

\* the state of the processes beside the arena server
aside == <<manager, claim>>

vars == <<state, timers, ids, saveTimer, disk, clock, crashes, aside>>

\* tools/arena-manager: let lastRestartAt = 0, let armed = false; pc is
\* "loop" at the top of the while loop and "restart" while the restart
\* request it has sent is on its way to the server
ManagerStart == [armed |-> FALSE, lastRestartAt |-> 0, pc |-> "loop"]

\* one wallet-claim token of state.claims and the claimedByWallet of its
\* agent (0 is null); inflight holds the wallets of the Privy claim requests
\* that are between their pending test and the end of their verification
NoClaim ==
  [status |-> "none", expiresAt |-> 0, claimedByWallet |-> 0,
   agentWallet |-> 0, inflight |-> {}]

\* null lobby / null tournamentRun (id 0 is never allocated)
NullLobby == [id |-> 0, status |-> "none", closesAt |-> 0, agentIds |-> <<>>]
NullRun == [id |-> 0, status |-> "none", round |-> 0, participants |-> <<>>,
            pool |-> <<>>, next |-> <<>>]

\* the counter object {}
EmptyMap == [k \in {} |-> 0]

\* the catch branch of loadState: the documented defaults
DefaultState ==
  [agents |-> <<>>, matches |-> <<>>, currentMatchId |-> 0,
   lobby |-> NullLobby, tournamentRun |-> NullRun,
   season |-> [number |-> 1, wins |-> EmptyMap, played |-> EmptyMap],
   allTime |-> [wins |-> EmptyMap, played |-> EmptyMap]]

\* loadState(): d is <<>> for a missing file, <<doc>> for a written one
loadState(d) ==
  IF d = <<>> THEN DefaultState
  ELSE [d[1] EXCEPT !.lobby = IF @.id # 0 THEN [@ EXCEPT !.status = "open"] ELSE @]

\* ---------------------------------------------------------------- helpers
Range(s) == {s[i] : i \in 1..Len(s)}

\* mutant: the filter keeps every element
SelectSeqBy_all(s, S) == s

\* xs.filter(x => S has x)
SelectSeqBy(s, S) == SelectSeq(s, LAMBDA x : x \in S)

\* mutant: the shuffle may repeat an element and drop another
Shuffles_withRepeats(s) ==
  LET n == Len(s)
  IN  {[i \in 1..n |-> s[p[i]]] : p \in [1..n -> 1..n]}

\* the outcomes of [...xs].sort(() => Math.random() - 0.5)
Shuffles(s) ==
  LET n == Len(s)
      P == {f \in [1..n -> 1..n] : \A i, j \in 1..n : i # j => f[i] # f[j]}
  IN  {[i \in 1..n |-> s[p[i]]] : p \in P}

RosterIds(st) == {st.agents[i].id : i \in 1..Len(st.agents)}

\* mutant: the roster is searched for the exact name, case included
FindByName_caseSensitive(st, name) ==
  LET hit == {i \in 1..Len(st.agents) : st.agents[i].name = name}
  IN  IF hit = {} THEN 0
      ELSE st.agents[CHOOSE i \in hit : \A j \in hit : i <= j].id

\* state.agents.find(a => a.name.toLowerCase() === name.toLowerCase())
FindByName(st, name) ==
  LET hit == {i \in 1..Len(st.agents) :
                toLowerCase(st.agents[i].name) = toLowerCase(name)}
  IN  IF hit = {} THEN 0
      ELSE st.agents[CHOOSE i \in hit : \A j \in hit : i <= j].id

\* mutant: an id that is not in the history falls back to the latest match
FindMatch_orLatest(st, id) ==
  LET hit == {i \in 1..Len(st.matches) : st.matches[i].id = id}
  IN  IF hit = {} THEN Len(st.matches) ELSE CHOOSE i \in hit : \A j \in hit : i <= j

\* state.matches.find(m => m.id === id): index in the history, 0 when absent
FindMatch(st, id) ==
  LET hit == {i \in 1..Len(st.matches) : st.matches[i].id = id}
  IN  IF hit = {} THEN 0 ELSE CHOOSE i \in hit : \A j \in hit : i <= j

getCurrentMatch(st) ==
  IF st.currentMatchId = 0 THEN 0 ELSE FindMatch(st, st.currentMatchId)

\* the world a handler runs in: the document plus the process-local timers
Cur == [st |-> state, timers |-> timers, ids |-> ids, saveTimer |-> saveTimer]

Commit(w) ==
  /\ state' = w.st
  /\ timers' = w.timers
  /\ ids' = w.ids
  /\ saveTimer' = w.saveTimer

saveStateSoon(w) == [w EXCEPT !.saveTimer = TRUE]

saveStateSoonIf(w, c) == IF c THEN saveStateSoon(w) ELSE w

\* what a handler answers: ok, the HTTP status, the agent or match id, the
\* existed / already flag, and the match's winnerId and endedAt
Ret(ok, code, id, dup, winnerId, endedAt) ==
  [ok |-> ok, code |-> code, id |-> id, dup |-> dup,
   winnerId |-> winnerId, endedAt |-> endedAt]

Fail(code) == Ret(FALSE, code, 0, FALSE, 0, 0)

\* ---------------------------------------------------------------- ledger
\* inc(obj, key): obj[key] = (Number(obj[key]) || 0) + 1
inc(obj, key) ==
  [k \in DOMAIN obj \cup {key} |->
     (IF k \in DOMAIN obj THEN obj[k] ELSE 0) + (IF k = key THEN 1 ELSE 0)]

\* Number(obj[key]) || 0
Count(obj, key) == IF key \in DOMAIN obj THEN obj[key] ELSE 0

\* ---------------------------------------------------------------- lobby
ensureLobby(w) ==
  IF w.st.lobby.id # 0 /\ w.st.lobby.status = "open" THEN w
  ELSE saveStateSoon(
         [w EXCEPT !.st.lobby = [id |-> w.ids.lobby + 1, status |-> "open",
                                 closesAt |-> clock + LOBBY_WAIT_MS,
                                 agentIds |-> <<>>],
                   !.ids.lobby = @ + 1])

lobbyAddAgent(w, agentId) ==
  LET w1 == ensureLobby(w)
  IN  saveStateSoon(
        IF agentId \in Range(w1.st.lobby.agentIds) THEN w1
        ELSE [w1 EXCEPT !.st.lobby.agentIds = Append(@, agentId)])

\* mutant: the deadline starts a lobby that is below the minimum
lobbyReadyToStart_noMinimum(st) ==
  /\ st.lobby.id # 0
  /\ st.lobby.status = "open"
  /\ \/ Len(st.lobby.agentIds) >= LOBBY_MAX_AGENTS
     \/ clock >= st.lobby.closesAt

\* lobbyReadyToStart() at the time `clock`
lobbyReadyToStart(st) ==
  /\ st.lobby.id # 0
  /\ st.lobby.status = "open"
  /\ Len(st.lobby.agentIds) >= LOBBY_MIN_AGENTS
  /\ \/ Len(st.lobby.agentIds) >= LOBBY_MAX_AGENTS
     \/ clock >= st.lobby.closesAt

\* ---------------------------------------------------------------- matches
\* createMatch(aId, bId, label): null (no change) when an id is not in the
\* roster; run is the bracket the tick created it for (0 outside a bracket)
createMatch(w, aId, bId, label, run) ==
  IF aId \notin RosterIds(w.st) \/ bId \notin RosterIds(w.st) THEN w
  ELSE LET id == w.ids.match + 1
           match == [id |-> id, status |-> "running", agents |-> <<aId, bId>>,
                     endedAt |-> 0, winnerId |-> 0,
                     label |-> label, run |-> run]
       IN  saveStateSoon(
             [w EXCEPT !.st.matches = Append(@, match),
                       !.st.currentMatchId = id,
                       !.ids.match = id,
                       !.timers = @ \cup {id}])

\* ---------------------------------------------------------------- bracket
\* mutant: any bracket counts as running, whatever its status
bracketRunning_anyStatus(st) == st.tournamentRun.id # 0

\* state.tournamentRun?.status === 'running'
bracketRunning(st) == st.tournamentRun.id # 0 /\ st.tournamentRun.status = "running"

RECURSIVE tickRun(_)
RECURSIVE tickPair(_)

\* mutant: the single id left in pool is dropped instead of given the bye
tickPair_dropBye(t) ==
  IF Len(t.pool) = 1
    THEN tickRun([t EXCEPT !.pool = <<>>])
  ELSE IF Len(t.pool) < 2 THEN {[run |-> t, pair |-> <<>>]}
  ELSE {[run |-> [t EXCEPT !.pool = SubSeq(@, 3, Len(@))],
         pair |-> <<t.pool[1], t.pool[2]>>]}

\* the part of tickTournament from "If odd, wildcard bye" on: the outcomes
\* [run, pair], pair being the two ids handed to createMatch (or <<>>)
tickPair(t) ==
  IF Len(t.pool) = 1
    THEN tickRun([t EXCEPT !.next = Append(@, t.pool[1]), !.pool = <<>>])
  ELSE IF Len(t.pool) < 2 THEN {[run |-> t, pair |-> <<>>]}
  ELSE {[run |-> [t EXCEPT !.pool = SubSeq(@, 3, Len(@))],
         pair |-> <<t.pool[1], t.pool[2]>>]}

\* tickTournament on a running bracket with no current match
tickRun(t) ==
  IF t.pool = <<>>
    THEN IF Len(t.next) = 1
           THEN {[run |-> [t EXCEPT !.status = "complete"], pair |-> <<>>]}
           ELSE UNION {tickPair([t EXCEPT !.round = @ + 1, !.pool = p,
                                          !.next = <<>>]) :
                       p \in Shuffles(t.next)}
    ELSE tickPair(t)

\* tickTournament(): the worlds it can leave
tickTournament(w) ==
  IF ~bracketRunning(w.st) THEN {w}
  ELSE IF getCurrentMatch(w.st) # 0 THEN {w}
  ELSE UNION {{IF o.pair = <<>> THEN w1
                ELSE createMatch(w1, o.pair[1], o.pair[2], o.run.round, o.run.id) :
                w1 \in {saveStateSoonIf([w EXCEPT !.st.tournamentRun = o.run],
                                        o.run # w.st.tournamentRun)}} :
              o \in tickRun(w.st.tournamentRun)}

startTournamentFromLobby(w) ==
  LET lobby == w.st.lobby
      idsIn == SelectSeqBy(lobby.agentIds, RosterIds(w.st))
  IN  IF lobby.id = 0 \/ lobby.status # "open" THEN {w}
      ELSE IF Len(idsIn) < LOBBY_MIN_AGENTS THEN {w}
      ELSE UNION {tickTournament(saveStateSoon(
                    [w EXCEPT !.st.tournamentRun =
                                [id |-> w.ids.run + 1, status |-> "running",
                                 round |-> 1, participants |-> idsIn,
                                 pool |-> p, next |-> <<>>],
                              !.st.lobby.status = "closed",
                              !.ids.run = @ + 1])) :
                  p \in Shuffles(idsIn)}

\* ---------------------------------------------------------------- resolve
\* mutant: no early return for a match that is already complete
alreadyResolved_never(match) == FALSE

\* if (match.status !== 'running') return { ok: true, match, already: true }
alreadyResolved(match) == match.status # "running"

\* mutant: the played counter of the second participant is not incremented
recordOutcome_skipPlayed(ledger, aId, bId, winnerId) ==
  [ledger EXCEPT !.played = inc(@, aId), !.wins = inc(@, winnerId)]

\* the six inc calls of resolveMatch, on one ledger (season or allTime)
recordOutcome(ledger, aId, bId, winnerId) ==
  [ledger EXCEPT !.played = inc(inc(@, aId), bId), !.wins = inc(@, winnerId)]

\* mutant: a supplied forcedWinnerId is taken without the participant test
winnerChoices_trustForced(aId, bId, forcedWinnerId) ==
  IF forcedWinnerId # 0 THEN {forcedWinnerId} ELSE {aId, bId}

\* forcedWinnerId && match.agents.includes(forcedWinnerId) ? forcedWinnerId
\*   : (Math.random() < 0.5 ? aId : bId)      (0 is a forcedWinnerId not given)
winnerChoices(aId, bId, forcedWinnerId) ==
  IF forcedWinnerId # 0 /\ forcedWinnerId \in {aId, bId}
    THEN {forcedWinnerId} ELSE {aId, bId}

\* mutant: the winner is not fed into the next round
settleMatch_noFeed(w, i, winnerId) ==
  LET match == w.st.matches[i]
      aId == match.agents[1]
      bId == match.agents[2]
      loserId == IF winnerId = aId THEN bId ELSE aId
  IN  saveStateSoon(
        [w EXCEPT
           !.st.matches[i] = [@ EXCEPT !.status = "complete",
                                       !.winnerId = winnerId,
                                       !.endedAt = clock],
           !.st.season = recordOutcome(@, aId, bId, winnerId),
           !.st.allTime = recordOutcome(@, aId, bId, winnerId),
           !.st.agents = IF ARENA_PERMADEATH
                           THEN SelectSeq(@, LAMBDA x : x.id # loserId)
                           ELSE @,
           !.st.currentMatchId = IF @ = match.id THEN 0 ELSE @])

\* resolveMatch from "match.status = 'complete'" to the last saveStateSoon
\* before the broadcasts: match i of the history is settled for winnerId
settleMatch(w, i, winnerId) ==
  LET match == w.st.matches[i]
      aId == match.agents[1]
      bId == match.agents[2]
      loserId == IF winnerId = aId THEN bId ELSE aId
      feed == bracketRunning(w.st)
  IN  saveStateSoon(
        [w EXCEPT
           !.st.matches[i] = [@ EXCEPT !.status = "complete",
                                       !.winnerId = winnerId,
                                       !.endedAt = clock],
           !.st.season = recordOutcome(@, aId, bId, winnerId),
           !.st.allTime = recordOutcome(@, aId, bId, winnerId),
           !.st.agents = IF ARENA_PERMADEATH
                           THEN SelectSeq(@, LAMBDA x : x.id # loserId)
                           ELSE @,
           !.st.currentMatchId = IF @ = match.id THEN 0 ELSE @,
           !.st.tournamentRun.next = IF feed THEN Append(@, winnerId) ELSE @])

\* resolveMatch(matchId, forcedWinnerId): the outcomes [w, ret]
resolveMatch(w, matchId, forcedWinnerId) ==
  LET i == FindMatch(w.st, matchId) IN
  IF i = 0 THEN {[w |-> w, ret |-> Fail(404)]}
  ELSE LET match == w.st.matches[i] IN
  IF alreadyResolved(match)
    THEN {[w |-> w, ret |-> Ret(TRUE, 200, matchId, TRUE,
                                match.winnerId, match.endedAt)]}
  ELSE
  UNION {{[w |-> w2, ret |-> Ret(TRUE, 200, matchId, FALSE, winnerId, clock)] :
          w2 \in UNION {tickTournament(w1) : w1 \in {settleMatch(w, i, winnerId)}}} :
         winnerId \in winnerChoices(match.agents[1], match.agents[2],
                                    forcedWinnerId)}

\* resolveMatch when ws.send throws in the first broadcast after the match is
\* settled: the exception leaves the function before the tick
resolveMatchSendThrows(w, matchId, forcedWinnerId) ==
  LET i == FindMatch(w.st, matchId) IN
  IF i = 0 THEN {[w |-> w, ret |-> Fail(404)]}
  ELSE LET match == w.st.matches[i] IN
  IF alreadyResolved(match)
    THEN {[w |-> w, ret |-> Ret(TRUE, 200, matchId, TRUE,
                                match.winnerId, match.endedAt)]}
  ELSE {[w |-> settleMatch(w, i, winnerId), ret |-> Fail(500)] :
        winnerId \in winnerChoices(match.agents[1], match.agents[2],
                                   forcedWinnerId)}

\* ---------------------------------------------------------------- handlers
\* Each handler is the set of outcomes [w, ret] it can leave from world w.

\* state.agents.push({ id: nanoid(10), name, ... })
pushAgent(w, name) ==
  [w EXCEPT !.st.agents = Append(@, [id |-> w.ids.agent + 1, name |-> name]),
            !.ids.agent = @ + 1]

\* POST /api/v1/arena/join
arenaJoin(w, name) ==
  IF name = "" THEN {[w |-> w, ret |-> Fail(400)]}
  ELSE LET existing == FindByName(w.st, name) IN
    IF existing # 0
      THEN {[w |-> saveStateSoonIf(w, llmChanged),
             ret |-> Ret(TRUE, 200, existing, TRUE, 0, 0)] :
            llmChanged \in BOOLEAN}
      ELSE LET id == w.ids.agent + 1
               w2 == saveStateSoon(lobbyAddAgent(pushAgent(w, name), id))
           IN  {[w |-> w3, ret |-> Ret(TRUE, 200, id, FALSE, 0, 0)] :
                w3 \in (IF lobbyReadyToStart(w2.st)
                          THEN startTournamentFromLobby(w2) ELSE {w2})}

\* getOrCreateAgentByName(name, llm): the outcome [w, ret]
getOrCreateAgentByName(w, name) ==
  LET existing == FindByName(w.st, name)
  IN  IF existing # 0 THEN [w |-> w, ret |-> Ret(TRUE, 200, existing, TRUE, 0, 0)]
      ELSE [w |-> pushAgent(w, name),
            ret |-> Ret(TRUE, 200, w.ids.agent + 1, FALSE, 0, 0)]

\* POST /api/v1/auth/register, as it enrols the agent in the roster
authRegister(w, name) ==
  IF name = "" THEN {[w |-> w, ret |-> Fail(400)]}
  ELSE LET o == getOrCreateAgentByName(w, name)
       IN  {[w |-> saveStateSoon(o.w), ret |-> o.ret]}

\* POST /api/agents
agentsCreate(w, name) ==
  IF name = "" THEN {[w |-> w, ret |-> Fail(400)]}
  ELSE LET existing == FindByName(w.st, name) IN
    IF existing # 0 THEN {[w |-> w, ret |-> Ret(TRUE, 200, existing, TRUE, 0, 0)]}
    ELSE {[w |-> saveStateSoon(pushAgent(w, name)),
           ret |-> Ret(TRUE, 200, w.ids.agent + 1, FALSE, 0, 0)]}

\* the ids POST /api/matches/start goes on with: the given ones, or two of
\* the shuffled roster when both are omitted (0 is an omitted id)
PickedIds(st, aId, bId) ==
  LET given == SelectSeq(<<aId, bId>>, LAMBDA x : x # 0)
      R == RosterIds(st)
  IN  IF Len(given) = 0 THEN {p \in R \X R : p[1] # p[2]} ELSE {given}

\* mutant: the new match replaces the history instead of extending it
pushQuickMatch_replace(w, aId, bId) ==
  LET id == w.ids.match + 1
      match == [id |-> id, status |-> "running", agents |-> <<aId, bId>>,
                endedAt |-> 0, winnerId |-> 0, label |-> 0, run |-> 0]
  IN  saveStateSoon([w EXCEPT !.st.matches = <<match>>,
                              !.st.currentMatchId = id,
                              !.ids.match = id,
                              !.timers = @ \cup {id}])

\* the match POST /api/matches/start pushes, and its resolution timer
pushQuickMatch(w, aId, bId) ==
  LET id == w.ids.match + 1
      match == [id |-> id, status |-> "running", agents |-> <<aId, bId>>,
                endedAt |-> 0, winnerId |-> 0, label |-> 0, run |-> 0]
  IN  saveStateSoon([w EXCEPT !.st.matches = Append(@, match),
                              !.st.currentMatchId = id,
                              !.ids.match = id,
                              !.timers = @ \cup {id}])

\* mutant: the start handler never sees a running match
matchRunning_never(st) == FALSE

\* const current = getCurrentMatch(); current && current.status === 'running'
matchRunning(st) ==
  getCurrentMatch(st) # 0 /\ st.matches[getCurrentMatch(st)].status = "running"

\* POST /api/matches/start
matchesStart(w, aId, bId) ==
  IF aId = 0 /\ bId = 0 /\ Len(w.st.agents) < 2 THEN {[w |-> w, ret |-> Fail(400)]}
  ELSE {IF Len(picked) # 2 \/ picked[1] = picked[2]
          THEN [w |-> w, ret |-> Fail(400)]
        ELSE IF picked[1] \notin RosterIds(w.st) \/ picked[2] \notin RosterIds(w.st)
          THEN [w |-> w, ret |-> Fail(404)]
        ELSE IF matchRunning(w.st)
          THEN [w |-> w, ret |-> Fail(409)]
        ELSE [w |-> pushQuickMatch(w, picked[1], picked[2]),
              ret |-> Ret(TRUE, 200, w.ids.match + 1, FALSE, 0, 0)] :
        picked \in PickedIds(w.st, aId, bId)}

\* mutant: the new season keeps the counters of the old one
NextSeason_keepCounts(s) == [s EXCEPT !.number = @ + 1]

\* the season that replaces state.season
NextSeason(s) == [number |-> s.number + 1, wins |-> EmptyMap, played |-> EmptyMap]

\* mutant: the season reset also forgets the current match
seasonReset_dropCurrent(w) ==
  saveStateSoon([w EXCEPT !.st.season = NextSeason(@), !.st.currentMatchId = 0])

\* POST /api/season/reset
seasonReset(w) == saveStateSoon([w EXCEPT !.st.season = NextSeason(@)])

\* mutant: the all-time ledger is wiped whatever clearAllTime says
arenaRestart_wipeAllTime(w, clearAllTime) ==
  saveStateSoon([w EXCEPT !.st = [DefaultState EXCEPT
                                    !.season = NextSeason(w.st.season)]])

\* mutant: the restart keeps the match history
arenaRestart_keepMatches(w, clearAllTime) ==
  saveStateSoon(
    [w EXCEPT !.st = [DefaultState EXCEPT
                        !.matches = w.st.matches,
                        !.season = NextSeason(w.st.season),
                        !.allTime = IF clearAllTime THEN @ ELSE w.st.allTime]])

\* POST /api/arena/restart
arenaRestart(w, clearAllTime) ==
  saveStateSoon(
    [w EXCEPT !.st = [DefaultState EXCEPT
                        !.season = NextSeason(w.st.season),
                        !.allTime = IF clearAllTime THEN @ ELSE w.st.allTime]])

\* PATCH /api/v1/agents/:agentId and POST /api/v1/agents/:agentId/name/verify:
\* owner is the outcome of the claimed / wallet / signature checks
agentRename(w, agentId, name, owner) ==
  IF agentId \notin RosterIds(w.st) THEN {[w |-> w, ret |-> Fail(404)]}
  ELSE IF ~owner THEN {[w |-> w, ret |-> Fail(403)]}
  ELSE IF name = "" THEN {[w |-> w, ret |-> Fail(400)]}
  ELSE {[w |-> saveStateSoon(
                 [w EXCEPT !.st.agents =
                    [i \in DOMAIN @ |-> IF @[i].id = agentId
                                          THEN [@[i] EXCEPT !.name = name]
                                          ELSE @[i]]]),
         ret |-> Ret(TRUE, 200, agentId, FALSE, 0, 0)]}

\* the setInterval callback of startLobbyLoop
lobbyLoop(w) ==
  IF w.st.tournamentRun.status = "running" THEN {w}
  ELSE IF getCurrentMatch(w.st) # 0 THEN {w}
  ELSE IF lobbyReadyToStart(w.st) THEN startTournamentFromLobby(w)
  ELSE {w}

\* ---------------------------------------------------------------- actions
Env == UNCHANGED <<disk, clock, crashes, aside>>

Join(name) ==
  /\ name = "" \/ FindByName(state, name) # 0 \/ ids.agent < MaxAgents
  /\ \E o \in arenaJoin(Cur, name) : Commit(o.w)
  /\ Env

Register(name) ==
  /\ name = "" \/ FindByName(state, name) # 0 \/ ids.agent < MaxAgents
  /\ \E o \in authRegister(Cur, name) : Commit(o.w)
  /\ Env

CreateAgent(name) ==
  /\ name = "" \/ FindByName(state, name) # 0 \/ ids.agent < MaxAgents
  /\ \E o \in agentsCreate(Cur, name) : Commit(o.w)
  /\ Env

StartQuickMatch(aId, bId) ==
  /\ \E o \in matchesStart(Cur, aId, bId) : Commit(o.w)
  /\ Env

\* POST /api/matches/:id/resolve
ResolveMatch(matchId, winnerId) ==
  /\ \E o \in resolveMatch(Cur, matchId, winnerId) : Commit(o.w)
  /\ Env

\* setTimeout(() => resolveMatch(match.id), ...)
TimerFire(matchId) ==
  /\ matchId \in timers
  /\ \E w \in {[Cur EXCEPT !.timers = @ \ {matchId}]} :
       \E o \in resolveMatch(w, matchId, 0) : Commit(o.w)
  /\ Env

LobbyTick ==
  /\ \E w \in lobbyLoop(Cur) : Commit(w)
  /\ Env

ResetSeason ==
  /\ state.season.number < MaxSeason
  /\ Commit(seasonReset(Cur))
  /\ Env

RestartArena(clearAllTime) ==
  /\ state.season.number < MaxSeason
  /\ Commit(arenaRestart(Cur, clearAllTime))
  /\ Env

RenameAgent(agentId, name, owner) ==
  /\ \E o \in agentRename(Cur, agentId, name, owner) : Commit(o.w)
  /\ Env

\* the clock moves on
Tick ==
  /\ clock < MaxTime
  /\ clock' = clock + 1
  /\ UNCHANGED <<state, timers, ids, saveTimer, disk, crashes, aside>>

\* the setTimeout callback of saveStateSoon; the write can fail
SaveFire ==
  /\ saveTimer
  /\ saveTimer' = FALSE
  /\ \E written \in BOOLEAN : disk' = IF written THEN <<state>> ELSE disk
  /\ UNCHANGED <<state, timers, ids, clock, crashes, aside>>

\* the process stops and is started again: let state = loadState()
ProcessRestart ==
  /\ crashes < MaxCrashes
  /\ crashes' = crashes + 1
  /\ state' = loadState(disk)
  /\ timers' = {}
  /\ saveTimer' = FALSE
  /\ UNCHANGED <<ids, disk, clock, aside>>

Init ==
  /\ state = loadState(<<>>)
  /\ timers = {}
  /\ ids = [agent |-> 0, match |-> 0, lobby |-> 0, run |-> 0]
  /\ saveTimer = FALSE
  /\ disk = <<>>
  /\ clock = 1
  /\ crashes = 0
  /\ manager = ManagerStart
  /\ claim = NoClaim

\* the scheduler's operations while the process runs
Next ==
  \/ \E name \in Names : Join(name)
  \/ \E name \in Names : Register(name)
  \/ \E name \in Names : CreateAgent(name)
  \/ \E aId, bId \in 0..MaxAgents : StartQuickMatch(aId, bId)
  \/ \E matchId \in 1..(ids.match + 1), winnerId \in 0..MaxAgents :
       ResolveMatch(matchId, winnerId)
  \/ \E matchId \in timers : TimerFire(matchId)
  \/ LobbyTick
  \/ ResetSeason
  \/ \E clearAllTime \in BOOLEAN : RestartArena(clearAllTime)
  \/ Tick

Spec == Init /\ [][Next]_vars

\* the scheduler with its state file: saves, and the process stopping and
\* starting again from what was saved
NextP ==
  \/ \E name \in Names \ {"A"} : Join(name)
  \/ \E matchId \in timers : TimerFire(matchId)
  \/ LobbyTick
  \/ Tick
  \/ SaveFire
  \/ ProcessRestart

SpecP == Init /\ [][NextP]_vars

\* a pending setTimeout callback runs while the process lives
FairSpecP == SpecP /\ WF_vars(\E matchId \in timers : TimerFire(matchId))

\* no arena restart: joins, quick matches, manual resolves, the timers and
\* the lobby loop
NextRun ==
  \/ \E name \in Names \ {"A"} : Join(name)
  \/ \E name \in Names \ {"A"} : CreateAgent(name)
  \/ \E aId, bId \in 0..MaxAgents : StartQuickMatch(aId, bId)
  \/ \E matchId \in 1..(ids.match + 1), winnerId \in 0..MaxAgents :
       ResolveMatch(matchId, winnerId)
  \/ \E matchId \in timers : TimerFire(matchId)
  \/ LobbyTick
  \/ Tick

\* the resolution timers and the lobby interval keep firing
FairSpec ==
  /\ Init /\ [][NextRun]_vars
  /\ WF_vars(\E matchId \in timers : TimerFire(matchId))
  /\ WF_vars(LobbyTick)


\* the operations that write agent names: registers, joins, agent creations
\* and owner renames
NextNames ==
  \/ \E name \in Names : Join(name)
  \/ \E name \in Names : Register(name)
  \/ \E name \in Names : CreateAgent(name)
  \/ \E agentId \in 1..MaxAgents, name \in Names, owner \in BOOLEAN :
       RenameAgent(agentId, name, owner)

SpecNames == Init /\ [][NextNames]_vars

\* a bracket of four: the arena run with a lobby capacity of four, after the
\* joins of four agents; the fourth join is about to hand the lobby off
FourIds == 1..4

FourNames == <<"a", "b", "c", "d">>

FourJoined ==
  [st |-> [DefaultState EXCEPT
             !.agents = [i \in FourIds |-> [id |-> i, name |-> FourNames[i]]],
             !.lobby = [id |-> 1, status |-> "open",
                        closesAt |-> 1 + LOBBY_WAIT_MS,
                        agentIds |-> [i \in FourIds |-> i]]],
   timers |-> {},
   ids |-> [agent |-> 4, match |-> 0, lobby |-> 1, run |-> 0],
   saveTimer |-> TRUE]

\* the hand-off of that lobby: the bracket shuffled, its first match running
InitFour ==
  /\ clock = 1
  /\ disk = <<>>
  /\ crashes = 0
  /\ manager = ManagerStart
  /\ claim = NoClaim
  /\ \E w \in startTournamentFromLobby(FourJoined) :
       /\ state = w.st
       /\ timers = w.timers
       /\ ids = w.ids
       /\ saveTimer = w.saveTimer

\* the bracket is played out: manual resolves with and without a forced
\* winner, and the resolution timers
NextFour ==
  \/ \E matchId \in 1..(ids.match + 1), winnerId \in {0} \cup FourIds :
       ResolveMatch(matchId, winnerId)
  \/ \E matchId \in timers : TimerFire(matchId)
  \/ Tick

SpecFour == InitFour /\ [][NextFour]_vars

\* a hand-off during a quick match: an agent registered outside the lobby,
\* two joins, a quick match between the outsider and the first joiner, and a
\* third join that fills the lobby and hands it off while that match runs
FreshWorld ==
  [st |-> DefaultState, timers |-> {},
   ids |-> [agent |-> 0, match |-> 0, lobby |-> 0, run |-> 0],
   saveTimer |-> FALSE]

InitLate ==
  /\ clock = 1
  /\ disk = <<>>
  /\ crashes = 0
  /\ manager = ManagerStart
  /\ claim = NoClaim
  /\ \E o1 \in authRegister(FreshWorld, "d") :
     \E o2 \in arenaJoin(o1.w, "a") :
     \E o3 \in arenaJoin(o2.w, "b") :
     \E o4 \in matchesStart(o3.w, 1, 2) :
     \E o5 \in arenaJoin(o4.w, "c") :
       /\ state = o5.w.st
       /\ timers = o5.w.timers
       /\ ids = o5.w.ids
       /\ saveTimer = o5.w.saveTimer

\* what follows without further joins: quick matches, resolves, the timers
\* and the lobby loop
NextLate ==
  \/ \E aId, bId \in {0} \cup FourIds : StartQuickMatch(aId, bId)
  \/ \E matchId \in 1..(ids.match + 1), winnerId \in {0} \cup FourIds :
       ResolveMatch(matchId, winnerId)
  \/ \E matchId \in timers : TimerFire(matchId)
  \/ LobbyTick
  \/ Tick

SpecLate == InitLate /\ [][NextLate]_vars

\* ---------------------------------------------------------- arena-manager
\* agents.length >= 2 || matchRunning || tournamentRunning, on the snapshot
realRun(st) == Len(st.agents) >= 2 \/ matchRunning(st) \/ bracketRunning(st)

\* const runEnded = !matchRunning && !tournamentRunning && agents.length <= 1
runEnded(st) == ~matchRunning(st) /\ ~bracketRunning(st) /\ Len(st.agents) <= 1

\* mutant: the manager stays armed when it issues a restart
managerLoop_staysArmed(m, st) ==
  LET armed == m.armed \/ realRun(st)
  IN  IF armed /\ runEnded(st) /\ clock - m.lastRestartAt > RESTART_COOLDOWN_MS
        THEN [armed |-> armed, lastRestartAt |-> clock, pc |-> "restart"]
        ELSE [m EXCEPT !.armed = armed]

\* one iteration of the while loop on the snapshot st that getState returned,
\* up to the await of restartArena
managerLoop(m, st) ==
  LET armed == m.armed \/ realRun(st)
  IN  IF armed /\ runEnded(st) /\ clock - m.lastRestartAt > RESTART_COOLDOWN_MS
        THEN [armed |-> FALSE, lastRestartAt |-> clock, pc |-> "restart"]
        ELSE [m EXCEPT !.armed = armed]

ManagerLoop ==
  /\ manager.pc = "loop"
  /\ manager' = managerLoop(manager, state)
  /\ UNCHANGED <<state, timers, ids, saveTimer, disk, clock, crashes, claim>>

\* the restart request reaches the server (body {}: allTime is kept), or
\* fails and is logged by the catch of the loop
ManagerRestart(done) ==
  /\ manager.pc = "restart"
  /\ manager' = [manager EXCEPT !.pc = "loop"]
  /\ IF done
       THEN state.season.number <= MaxRestarts /\ Commit(arenaRestart(Cur, FALSE))
       ELSE UNCHANGED <<state, timers, ids, saveTimer>>
  /\ UNCHANGED <<disk, clock, crashes, claim>>

\* a join, for as long as agents arrive
Arrive(name) ==
  /\ ids.agent < MaxArrivals
  /\ \E o \in arenaJoin(Cur, name) : Commit(o.w)
  /\ Env

\* the arena watched by its manager, which alone restarts it
NextManaged ==
  \/ \E name \in {"a", "b"} : Arrive(name)
  \/ \E aId, bId \in 0..MaxArrivals : StartQuickMatch(aId, bId)
  \/ \E matchId \in timers : TimerFire(matchId)
  \/ LobbyTick
  \/ Tick
  \/ ManagerLoop
  \/ \E done \in BOOLEAN : ManagerRestart(done)

SpecManaged == Init /\ [][NextManaged]_vars

\* a bracket of n = 2, 3 or 4 played out alone: the hand-off of a lobby of
\* the first n agents, then resolves and timers, with no quick match, no
\* second hand-off and no arena restart
Joined(n) ==
  [FourJoined EXCEPT
     !.st.agents = SubSeq(@, 1, n),
     !.st.lobby.agentIds = SubSeq(@, 1, n),
     !.ids.agent = n]

InitBracket ==
  /\ clock = 1
  /\ disk = <<>>
  /\ crashes = 0
  /\ manager = ManagerStart
  /\ claim = NoClaim
  /\ \E n \in 2..4 : \E w \in startTournamentFromLobby(Joined(n)) :
       /\ state = w.st
       /\ timers = w.timers
       /\ ids = w.ids
       /\ saveTimer = w.saveTimer

SpecBracket == InitBracket /\ [][NextFour]_vars

\* a lobby whose members are gone: an agent registered outside the lobby has
\* beaten both agents of the open lobby in quick matches
InitStale ==
  /\ clock = 1
  /\ disk = <<>>
  /\ crashes = 0
  /\ manager = ManagerStart
  /\ claim = NoClaim
  /\ \E o1 \in authRegister(FreshWorld, "d") :
     \E o2 \in arenaJoin(o1.w, "a") :
     \E o3 \in arenaJoin(o2.w, "b") :
     \E o4 \in matchesStart(o3.w, 1, 2) :
     \E o5 \in resolveMatch(o4.w, o4.ret.id, 1) :
     \E o6 \in matchesStart(o5.w, 1, 3) :
     \E o7 \in resolveMatch(o6.w, o6.ret.id, 1) :
       /\ state = o7.w.st
       /\ timers = o7.w.timers
       /\ ids = o7.w.ids
       /\ saveTimer = o7.w.saveTimer

\* further agents join; quick matches, the timers and the lobby loop go on
NextStale ==
  \/ \E name \in {"a", "b"} : Arrive(name)
  \/ \E aId, bId \in 0..MaxArrivals : StartQuickMatch(aId, bId)
  \/ \E matchId \in timers : TimerFire(matchId)
  \/ LobbyTick
  \/ Tick

SpecStale == InitStale /\ [][NextStale]_vars

\* ---------------------------------------------------------- wallet claim
Wallets == 1..MaxWallets

\* createClaimForAgent at the time `clock`
createClaimForAgent ==
  [status |-> "pending", expiresAt |-> clock + CLAIM_TTL_MS,
   claimedByWallet |-> 0, agentWallet |-> 0, inflight |-> {}]

\* "Expire lazily": the first lines of every claim handler after findClaim
expireLazily(c) ==
  IF c.status = "pending" /\ clock > c.expiresAt
    THEN [c EXCEPT !.status = "expired"] ELSE c

\* claim.status = 'claimed'; claim.claimedByWallet = publicKeyStr; and the
\* same wallet on the agent when the roster still has it
setClaimed(c, wallet, agentFound) ==
  [c EXCEPT !.status = "claimed",
            !.claimedByWallet = wallet,
            !.agentWallet = IF agentFound THEN wallet ELSE @]

\* POST /api/v1/claim/verify: valid is the outcome of the message and
\* signature checks
claimVerify(c, wallet, valid, agentFound) ==
  LET c1 == expireLazily(c)
  IN  IF c1.status # "pending" THEN c1
      ELSE IF ~valid THEN c1
      ELSE setClaimed(c1, wallet, agentFound)

\* POST /api/v1/claim/privy up to its first await
claimPrivyBegin(c, wallet) ==
  LET c1 == expireLazily(c)
  IN  IF c1.status # "pending" THEN c1
      ELSE [c1 EXCEPT !.inflight = @ \cup {wallet}]

\* POST /api/v1/claim/privy after its awaits: verified is FALSE when the
\* verification throws or the user has no solana wallet
claimPrivyEnd(c, wallet, verified, agentFound) ==
  LET c1 == [c EXCEPT !.inflight = @ \ {wallet}]
  IN  IF verified THEN setClaimed(c1, wallet, agentFound) ELSE c1

\* the agent of the claim is agent 1, the first registered
ClaimAgentFound == 1 \in RosterIds(state)

ClaimStep(c) ==
  /\ claim' = c
  /\ saveTimer' = (saveTimer \/ c.status # claim.status)
  /\ UNCHANGED <<state, timers, ids, disk, clock, crashes, manager>>

ClaimVerify(wallet, valid) ==
  /\ claim.status # "none"
  /\ ClaimStep(claimVerify(claim, wallet, valid, ClaimAgentFound))

ClaimPrivyBegin(wallet) ==
  /\ claim.status # "none"
  /\ wallet \notin claim.inflight
  /\ ClaimStep(claimPrivyBegin(claim, wallet))

ClaimPrivyEnd(wallet, verified) ==
  /\ wallet \in claim.inflight
  /\ ClaimStep(claimPrivyEnd(claim, wallet, verified, ClaimAgentFound))

\* an agent has registered and holds a pending claim token
InitClaim ==
  /\ clock = 1
  /\ disk = <<>>
  /\ crashes = 0
  /\ manager = ManagerStart
  /\ claim = createClaimForAgent
  /\ \E o \in authRegister(FreshWorld, "a") :
       /\ state = o.w.st
       /\ timers = o.w.timers
       /\ ids = o.w.ids
       /\ saveTimer = o.w.saveTimer

NextClaim ==
  \/ \E wallet \in Wallets, valid \in BOOLEAN : ClaimVerify(wallet, valid)
  \/ \E wallet \in Wallets : ClaimPrivyBegin(wallet)
  \/ \E wallet \in Wallets, verified \in BOOLEAN : ClaimPrivyEnd(wallet, verified)
  \/ \E clearAllTime \in BOOLEAN : RestartArena(clearAllTime)
  \/ Tick

SpecClaim == InitClaim /\ [][NextClaim]_vars

\* ================================================================ claims
RunningMatches(st) == {i \in 1..Len(st.matches) : st.matches[i].status = "running"}

CompleteMatches(st) == {i \in 1..Len(st.matches) : st.matches[i].status = "complete"}

\* the loser of a complete match, as resolveMatch computes loserId
Loser(m) == IF m.winnerId = m.agents[1] THEN m.agents[2] ELSE m.agents[1]

\* a hand-off takes LOBBY_MIN_AGENTS newly joined agents at least
RunIds == 1..(MaxAgents \div LOBBY_MIN_AGENTS)

MatchIds == 1..(MaxAgents * (MaxCrashes + 1))

\* C1: at most one match of the history is running; currentMatchId is null
\* exactly when none is, and otherwise is the id of the running match.
C1_SingleActiveMatch ==
  /\ Cardinality(RunningMatches(state)) <= 1
  /\ (state.currentMatchId = 0) <=> (RunningMatches(state) = {})
  /\ \A i \in RunningMatches(state) : state.matches[i].id = state.currentMatchId

\* a second match is running after an earlier one was resolved, in a season
\* that was reset meanwhile
C1_Witness ==
  /\ RunningMatches(state) # {}
  /\ CompleteMatches(state) # {}
  /\ state.season.number > 1

\* the ids of a running bracket: pool (with the pair the tick has drawn for
\* the bracket's running bout), next, and the losers of its complete matches
BracketIds(st) ==
  LET t == st.tournamentRun
      mine == SelectSeq(st.matches, LAMBDA m : m.run = t.id)
      bout == SelectSeq(mine, LAMBDA m : m.status = "running")
      done == SelectSeq(mine, LAMBDA m : m.status = "complete")
      Pair(q) == IF q = <<>> THEN <<>> ELSE q[1].agents
      RECURSIVE Losers(_)
      Losers(q) == IF q = <<>> THEN <<>> ELSE <<Loser(q[1])>> \o Losers(Tail(q))
  IN  t.pool \o Pair(bout) \o t.next \o Losers(done)

\* C2: while a bracket runs, pool, next and the ids eliminated from it hold
\* every initial participant exactly once and no other id. (The pair drawn
\* for the running bout is counted with the pool it was popped from; the
\* claim as worded, without that pair, fails in the same states and more.)
C2_BracketConservation ==
  bracketRunning(state) =>
    LET all == BracketIds(state)
        part == state.tournamentRun.participants
    IN  /\ Len(all) = Len(part)
        /\ Range(all) = Range(part)
        /\ \A i, j \in 1..Len(all) : i # j => all[i] # all[j]

C3_CompleteShape ==
  state.tournamentRun.status = "complete" =>
    /\ state.tournamentRun.pool = <<>>
    /\ Len(state.tournamentRun.next) = 1

\* C3: a complete bracket has an empty pool and one id in next, and no later
\* step changes it for as long as that bracket is the tournamentRun.
C3_ChampionUnique ==
  /\ []C3_CompleteShape
  /\ [][(state.tournamentRun.status = "complete"
          /\ state'.tournamentRun.id = state.tournamentRun.id)
        => state'.tournamentRun = state.tournamentRun]_vars

\* a bracket is complete and a match started after its completion is running
C3_Witness ==
  /\ state.tournamentRun.status = "complete"
  /\ state.currentMatchId # 0

\* C4: under fair timers and without arena restart, every bracket a hand-off
\* created eventually is complete.
C4_RunCompletes ==
  \A k \in RunIds :
    (state.tournamentRun.id = k /\ state.tournamentRun.status = "running")
      ~> (state.tournamentRun.id = k /\ state.tournamentRun.status = "complete")

\* C5: every running match, also one reloaded from the state file as the
\* current match, is eventually complete (or gone from the history) by its
\* resolution timer alone: no match stays running for ever.
C5_TimerResolves ==
  \A k \in MatchIds :
    []<>(\A i \in RunningMatches(state) : state.matches[i].id # k)

\* C6: resolving a complete match again, manually with any forced winner or
\* by its timer, answers ok with the recorded winnerId and endedAt and
\* leaves the whole scheduler state as it is.
C6_ResolveIdempotent ==
  \A i \in CompleteMatches(state) :
    LET m == state.matches[i]
        late == [Cur EXCEPT !.timers = @ \ {m.id}]
        same == Ret(TRUE, 200, m.id, TRUE, m.winnerId, m.endedAt)
    IN  /\ \A f \in 0..MaxAgents :
             resolveMatch(Cur, m.id, f) = {[w |-> Cur, ret |-> same]}
        /\ resolveMatch(late, m.id, 0) = {[w |-> late, ret |-> same]}

\* a match resolved at an earlier time whose timer is still pending, while a
\* bracket is running that a second resolution would feed
C6_Witness ==
  \E i \in CompleteMatches(state) :
    /\ state.matches[i].id \in timers
    /\ state.matches[i].endedAt < clock
    /\ bracketRunning(state)

\* C7: in both ledgers every agent id has played >= wins.
C7_PlayedAtLeastWins ==
  \A led \in {state.season, state.allTime} :
    \A id \in DOMAIN led.wins \cup DOMAIN led.played :
      Count(led.played, id) >= Count(led.wins, id)

\* an agent has won in the current season and has earlier all-time wins
\* that a season reset removed from the season ledger
C7_Witness ==
  \E id \in DOMAIN state.season.wins :
    /\ state.season.wins[id] >= 1
    /\ Count(state.allTime.wins, id) > state.season.wins[id]
    /\ state.season.number > 1

\* C8: every match has two different participants, both in the roster when
\* it is created, and a start request pairing an agent with itself is
\* rejected with the state unchanged.
C8_TwoDifferentAgents ==
  /\ [](\A i \in 1..Len(state.matches) :
          state.matches[i].agents[1] # state.matches[i].agents[2])
  /\ [](\A a \in 1..MaxAgents :
          matchesStart(Cur, a, a) = {[w |-> Cur, ret |-> Fail(400)]})
  /\ [][\A i \in 1..Len(state'.matches) :
          state'.matches[i].id > ids.match =>
            Range(state'.matches[i].agents) \subseteq RosterIds(state')]_vars

\* C9: a hand-off creates a new bracket only when no bracket is running and
\* no match is running; a running bracket is never replaced by a new one.
C9_HandOffOnlyWhenIdle ==
  [][(state'.tournamentRun.id # 0
       /\ state'.tournamentRun.id # state.tournamentRun.id)
     => (~bracketRunning(state) /\ RunningMatches(state) = {})]_vars

\* C10: after a successful join the returned agent is in the open lobby, or
\* in the bracket that this join's hand-off created.
C10_JoinedAgentEnlisted ==
  \A name \in Names : \A o \in arenaJoin(Cur, name) :
    o.ret.ok =>
      \/ /\ o.w.st.lobby.status = "open"
         /\ o.ret.id \in Range(o.w.st.lobby.agentIds)
      \/ /\ o.w.st.tournamentRun.id # state.tournamentRun.id
         /\ o.ret.id \in Range(o.w.st.tournamentRun.participants)

\* a sequence without a repeated element
NoRepeat(q) == \A i, j \in 1..Len(q) : i # j => q[i] # q[j]

\* the roster ids whose name equals name ignoring case
Named(st, name) ==
  {st.agents[i].id : i \in {k \in 1..Len(st.agents) :
                               toLowerCase(st.agents[k].name) = toLowerCase(name)}}

\* C11: a join with a name the roster already has (ignoring case) answers
\* with that agent, flagged as existing, and leaves roster and lobby as they
\* are; the lobby's participant list never holds an id twice.
C11_JoinIdempotent ==
  /\ NoRepeat(state.lobby.agentIds)
  /\ \A name \in Names \ {""} :
       Named(state, name) # {} =>
         \A o \in arenaJoin(Cur, name) :
           /\ o.ret.ok /\ o.ret.dup
           /\ o.ret.id \in Named(state, name)
           /\ o.w.st.agents = state.agents
           /\ o.w.st.lobby = state.lobby
           /\ NoRepeat(o.w.st.lobby.agentIds)

\* agent "a" sits in the open lobby with another agent, so that a join as
\* "A" or "a" is a join with an existing name
C11_Witness ==
  /\ state.lobby.status = "open"
  /\ Len(state.lobby.agentIds) >= 2
  /\ Named(state, "A") \cap Range(state.lobby.agentIds) # {}

\* C12: with permadeath, right after the first resolution of a match its
\* loser is gone from the roster, its winner is still in it, and both
\* ledgers count the match among the loser's played ones.
C12_Permadeath ==
  ARENA_PERMADEATH =>
    \A i \in RunningMatches(state) : \A f \in 0..MaxAgents :
      \A o \in resolveMatch(Cur, state.matches[i].id, f) :
        LET loserId == Loser(o.w.st.matches[i])
        IN  /\ loserId \notin RosterIds(o.w.st)
            /\ o.ret.winnerId \in RosterIds(o.w.st)
            /\ Count(o.w.st.season.played, loserId)
                 > Count(state.season.played, loserId)
            /\ Count(o.w.st.allTime.played, loserId)
                 > Count(state.allTime.played, loserId)

\* C13: the first resolution of a match records one of its two participants
\* as winner: the forced winner when one is given and is a participant, and
\* never a forced id that is no participant.
C13_WinnerIsParticipant ==
  \A i \in RunningMatches(state) : \A f \in 0..MaxAgents :
    \A o \in resolveMatch(Cur, state.matches[i].id, f) :
      LET pair == Range(state.matches[i].agents)
          done == o.w.st.matches[i]
      IN  /\ done.status = "complete"
          /\ done.winnerId \in pair
          /\ o.ret.winnerId = done.winnerId
          /\ (f \in pair => done.winnerId = f)
          /\ (f \notin pair => done.winnerId # f)

\* a match is running while a third agent, no participant of it, is in the
\* roster and can be named as forced winner
C13_Witness ==
  \E i \in RunningMatches(state) :
    /\ RosterIds(state) \ Range(state.matches[i].agents) # {}
    /\ state.matches[i].agents[1] # state.matches[i].agents[2]

\* counters before and after agree on every key outside S
SameOutside(before, after, S) ==
  /\ DOMAIN after \ S = DOMAIN before \ S
  /\ \A k \in DOMAIN before \ S : after[k] = before[k]

\* the ledger after differs from before by one resolution of a match of
\* aId and bId won by winnerId
OneOutcome(before, after, aId, bId, winnerId) ==
  /\ \A id \in {aId, bId} : Count(after.played, id) = Count(before.played, id) + 1
  /\ Count(after.wins, winnerId) = Count(before.wins, winnerId) + 1
  /\ SameOutside(before.played, after.played, {aId, bId})
  /\ SameOutside(before.wins, after.wins, {winnerId})

\* C14: the first resolution of a match of a and b with winner w adds
\* exactly 1 to played[a], to played[b] and to wins[w] in the season and in
\* the all-time ledger, and changes no other counter.
C14_LedgerFrame ==
  \A i \in RunningMatches(state) : \A f \in 0..MaxAgents :
    \A o \in resolveMatch(Cur, state.matches[i].id, f) :
      LET aId == state.matches[i].agents[1]
          bId == state.matches[i].agents[2]
      IN  /\ OneOutcome(state.season, o.w.st.season, aId, bId, o.ret.winnerId)
          /\ OneOutcome(state.allTime, o.w.st.allTime, aId, bId, o.ret.winnerId)
          /\ o.w.st.season.number = state.season.number

\* the ids of the matches in the history
HistoryIds(st) == {st.matches[i].id : i \in 1..Len(st.matches)}

\* C15: resolving an id that no match of the history has answers 404, not
\* ok, and leaves the whole scheduler state as it is, for a manual call and
\* for a late timer alike; a complete match answers ok instead.
C15_UnknownMatch ==
  /\ \A k \in (0..(ids.match + 1)) \ HistoryIds(state) :
       /\ \A f \in 0..MaxAgents :
            resolveMatch(Cur, k, f) = {[w |-> Cur, ret |-> Fail(404)]}
       /\ LET late == [Cur EXCEPT !.timers = @ \ {k}]
          IN  resolveMatch(late, k, 0) = {[w |-> late, ret |-> Fail(404)]}
  /\ \A i \in CompleteMatches(state) :
       \A o \in resolveMatch(Cur, state.matches[i].id, 0) :
         o.ret.ok /\ o.ret.code # Fail(404).code

\* the timer of a match that an arena restart removed from the history is
\* still pending, and agents have joined since
C15_Witness ==
  /\ \E k \in timers : k \notin HistoryIds(state)
  /\ state.lobby.status = "open"

\* the start handler rejects with this status and changes nothing
Rejected(aId, bId, code) ==
  matchesStart(Cur, aId, bId) = {[w |-> Cur, ret |-> Fail(code)]}

\* C16: a quick-match start is rejected, with the scheduler state and the
\* timers unchanged, when the ids are omitted with fewer than 2 agents (400),
\* when one id only is given or both are equal (400), when a given id is not
\* in the roster (404), and when a match is running (409 once the ids pass).
C16_StartRejected ==
  \A aId, bId \in 0..MaxAgents :
    LET R == RosterIds(state)
        omitted == aId = 0 /\ bId = 0
        invalid == ~omitted /\ (aId = 0 \/ bId = 0 \/ aId = bId)
        unknown == ~omitted /\ ~invalid /\ ({aId, bId} \ R # {})
    IN  /\ (omitted /\ Len(state.agents) < 2) => Rejected(aId, bId, 400)
        /\ invalid => Rejected(aId, bId, 400)
        /\ unknown => Rejected(aId, bId, 404)
        /\ RunningMatches(state) # {} =>
             /\ \A o \in matchesStart(Cur, aId, bId) : ~o.ret.ok /\ o.w = Cur
             /\ (~invalid /\ ~unknown /\ Len(state.agents) >= 2)
                  => Rejected(aId, bId, 409)

\* a match is running, two agents are in the roster and an earlier loser is
\* not: every kind of rejection can be asked for
C16_Witness ==
  /\ RunningMatches(state) # {}
  /\ Len(state.agents) >= 2
  /\ (1..ids.agent) \ RosterIds(state) # {}

\* C17: a closed lobby stays closed for as long as it is the lobby, also
\* across a save and a restart of the process; lobbies seed at most one
\* bracket each; and the first join after a close opens a new lobby that
\* holds the joining agent only.
C17_LobbyClosesOnce ==
  /\ [][(state.lobby.status = "closed" /\ state'.lobby.id = state.lobby.id)
          => state'.lobby.status = "closed"]_vars
  /\ [](ids.run <= ids.lobby)
  /\ [](state.lobby.status = "closed" =>
          \A name \in Names \ {""} :
            Named(state, name) = {} =>
              \A o \in arenaJoin(Cur, name) :
                /\ o.w.st.lobby.id # state.lobby.id
                /\ o.w.st.lobby.agentIds = <<o.ret.id>>)

\* C18: lobbyReadyToStart is true exactly for an open lobby with at least
\* LOBBY_MIN_AGENTS participants that is full or past its deadline; below
\* the minimum it is false, also after the deadline.
C18_ReadyToStart ==
  LET lobby == state.lobby
      n == Len(lobby.agentIds)
      exists == lobby.id # 0
      due == clock >= lobby.closesAt
  IN  /\ lobbyReadyToStart(state) <=>
           (exists /\ lobby.status = "open" /\ n >= LOBBY_MIN_AGENTS
              /\ (n >= LOBBY_MAX_AGENTS \/ due))
      /\ (n < LOBBY_MIN_AGENTS => ~lobbyReadyToStart(state))

\* an open lobby below the minimum whose deadline has passed
C18_Witness ==
  /\ state.lobby.status = "open"
  /\ Len(state.lobby.agentIds) = 1
  /\ clock >= state.lobby.closesAt

\* the pair of the match a step has added to the history st, <<>> if none
NewPair(st, after) ==
  IF Len(after.matches) > Len(st.matches)
    THEN after.matches[Len(after.matches)].agents ELSE <<>>

C20_CapacityStart ==
  (state.lobby.status = "open"
     /\ Len(state.lobby.agentIds) = LOBBY_MAX_AGENTS - 1) =>
    \A name \in Names \ {""} :
      Named(state, name) = {} =>
        \A o \in arenaJoin(Cur, name) :
          LET run == o.w.st.tournamentRun
              pair == NewPair(state, o.w.st)
          IN  /\ o.ret.ok
              /\ o.w.st.lobby = [state.lobby EXCEPT
                                   !.status = "closed",
                                   !.agentIds = Append(@, o.ret.id)]
              /\ run.id # state.tournamentRun.id
              /\ run.status = "running"
              /\ pair # <<>>
              /\ Range(pair) \subseteq Range(run.participants)
              /\ o.w.st.matches[Len(o.w.st.matches)].status = "running"
              /\ o.w.st.matches[Len(o.w.st.matches)].run = run.id
              /\ o.w.st.currentMatchId = o.w.st.matches[Len(o.w.st.matches)].id

\* C21: after RestartArena the roster is empty, the lobby and the bracket are
\* absent, currentMatchId is null, the season has empty wins and played and a
\* number exactly one greater than before, and allTime is unchanged when
\* wipeAllTime is false and empty when it is true.
C21_RestartFrame ==
  \A clearAllTime \in BOOLEAN :
    LET after == arenaRestart(Cur, clearAllTime).st
    IN  /\ after.agents = <<>>
        /\ after.lobby = NullLobby
        /\ after.tournamentRun = NullRun
        /\ after.currentMatchId = 0
        /\ after.season = [number |-> state.season.number + 1,
                           wins |-> EmptyMap, played |-> EmptyMap]
        /\ after.allTime = IF clearAllTime
                             THEN [wins |-> EmptyMap, played |-> EmptyMap]
                             ELSE state.allTime

\* the arena was restarted after a match was resolved, and allTime was kept
C21_Witness ==
  /\ state.season.number > 1
  /\ state.agents = <<>>
  /\ state.matches = <<>>
  /\ state.lobby = NullLobby
  /\ DOMAIN state.allTime.wins # {}

\* the timers left behind by a history that a restart discarded
StaleTimers == timers \ HistoryIds(state)

C23_SeasonResetFrame ==
  LET w == seasonReset(Cur)
  IN  /\ w.st = [state EXCEPT !.season = [number |-> state.season.number + 1,
                                          wins |-> EmptyMap, played |-> EmptyMap]]
      /\ w.timers = timers

\* the season was reset with a played ledger behind it, and a match is running
C23_Witness ==
  /\ state.season.number > 1
  /\ DOMAIN state.season.played = {}
  /\ DOMAIN state.allTime.played # {}
  /\ RunningMatches(state) # {}
  /\ state.currentMatchId # 0

\* C24: once a match is complete, its status, winnerId and endedAt never
\* change under any later operation; a match never goes from complete back to
\* running.
C24_CompleteIsFinal ==
  [][\A i \in CompleteMatches(state) : \A j \in 1..Len(state'.matches) :
       state'.matches[j].id = state.matches[i].id =>
         /\ state'.matches[j].status = "complete"
         /\ state'.matches[j].winnerId = state.matches[i].winnerId
         /\ state'.matches[j].endedAt = state.matches[i].endedAt]_vars

\* a complete match with a later match running after it, at a later time
C24_Witness ==
  \E i \in CompleteMatches(state), j \in RunningMatches(state) :
    i < j /\ state.matches[i].endedAt < clock

\* position by position, the history after the step starts with the ids of
\* the history before it
Extends(before, after) ==
  /\ Len(before) <= Len(after)
  /\ \A i \in 1..Len(before) : after[i].id = before[i].id

\* C25 as stated: the match history is append-only under every scheduler
\* operation, arena restart included: a match once added is never removed
\* and the relative order never changes.
C25_AppendOnly == [][Extends(state.matches, state'.matches)]_vars

\* C25 as the code has it: the history is append-only under every operation
\* but the arena restart, which empties it together with the roster.
C25_AppendOnlyUntilRestart ==
  [][\/ Extends(state.matches, state'.matches)
     \/ /\ state'.matches = <<>>
        /\ state'.agents = <<>>
        /\ state'.season.number = state.season.number + 1]_vars

\* a history of two matches, the first resolved before the second was added
C25_Witness ==
  /\ Len(state.matches) >= 2
  /\ state.matches[1].status = "complete"
  /\ state.matches[1].id < state.matches[2].id

\* C26: no two agents of the roster have names that are equal ignoring case,
\* after any sequence of registers, joins, agent creations and owner renames.
C26_UniqueNames ==
  \A i, j \in 1..Len(state.agents) :
    i # j => toLowerCase(state.agents[i].name) # toLowerCase(state.agents[j].name)

\* C27: if a persistence write or a broadcast send fails (throws) during a
\* scheduler operation, the in-memory state after the operation is the same
\* as when the collaborator succeeds: here for a resolve whose broadcast
\* throws, and for the debounced write, which touches no state at all.
C27_FailureTransparent ==
  \A matchId \in 1..(ids.match + 1), forcedWinnerId \in 0..MaxAgents :
    {o.w.st : o \in resolveMatchSendThrows(Cur, matchId, forcedWinnerId)}
      = {o.w.st : o \in resolveMatch(Cur, matchId, forcedWinnerId)}

\* C28: after a debounced persistence write fails, another write is attempted
\* on a following debounce cycle without any further state mutation: a save
\* callback that leaves the file behind the state leaves a save pending.
C28_SaveRetried ==
  [][(saveTimer /\ state' = state /\ crashes' = crashes /\ disk' # <<state'>>)
       => saveTimer']_vars

\* a bracket of three participants in its first round, with the match its
\* first tick created still running
FirstRoundOfThree(st) ==
  /\ bracketRunning(st)
  /\ Len(st.tournamentRun.participants) = 3
  /\ st.tournamentRun.round = 1
  /\ \E i \in RunningMatches(st) : st.matches[i].run = st.tournamentRun.id

\* the participants of the bracket that are not in its running match
Waiting(st) ==
  Range(st.tournamentRun.participants)
    \ UNION {Range(st.matches[i].agents) : i \in RunningMatches(st)}

\* exactly one running match, between two different participants, and one
\* participant left over, referenced by no match record
OneBoutOneLeft(st) ==
  /\ Cardinality(RunningMatches(st)) = 1
  /\ \A i \in RunningMatches(st) :
       /\ st.matches[i].agents[1] # st.matches[i].agents[2]
       /\ Range(st.matches[i].agents) \subseteq Range(st.tournamentRun.participants)
  /\ Cardinality(Waiting(st)) = 1
  /\ \A x \in Waiting(st), i \in 1..Len(st.matches) :
       x \notin Range(st.matches[i].agents)

\* C29: after the first tick of a bracket of three there is exactly
\* one running match between two of them, and the third participant is held
\* in next and not in pool, referenced by no match record, until that round's
\* match resolves.
C29_ThirdHeldInNext ==
  FirstRoundOfThree(state) =>
    /\ OneBoutOneLeft(state)
    /\ \A x \in Waiting(state) :
         /\ x \in Range(state.tournamentRun.next)
         /\ x \notin Range(state.tournamentRun.pool)

\* the matches of the history created for round n of the bracket
RoundMatches(st, n) ==
  {i \in 1..Len(st.matches) :
     st.matches[i].run = st.tournamentRun.id /\ st.matches[i].label = n}

\* C30: in a bracket of four, once the two round-1 matches are resolved with
\* forced winners w1 and w2 there is exactly one round-2 match, between w1
\* and w2, with round number 2; resolving it with forced winner w1 leaves
\* the run complete with next = [w1], after exactly 3 matches.
C30_FourBracket ==
  LET t == state.tournamentRun
      R1 == RoundMatches(state, 1)
      R2 == RoundMatches(state, 2)
  IN  /\ Len(t.participants) = 4
      /\ t.round \in {1, 2}
      \* a forced winner that takes part is the recorded winner
      /\ \A i \in RunningMatches(state) : \A f \in Range(state.matches[i].agents) :
           \A o \in resolveMatch(Cur, state.matches[i].id, f) :
             o.w.st.matches[i].winnerId = f /\ o.ret.winnerId = f
      \* round 1 is two matches; round 2 starts when both are resolved
      /\ t.round = 1 /\ t.status = "running" =>
           R2 = {} /\ Cardinality(R1) \in {1, 2} /\ R1 \cap RunningMatches(state) # {}
      /\ t.round = 2 =>
           /\ Cardinality(R1) = 2
           /\ R1 \subseteq CompleteMatches(state)
           /\ Cardinality(R2) = 1
           /\ \A j \in R2 :
                /\ state.matches[j].agents[1] # state.matches[j].agents[2]
                /\ Range(state.matches[j].agents)
                     = {state.matches[i].winnerId : i \in R1}
                /\ t.status = "running" => state.matches[j].status = "running"
      \* the final, resolved with one of its two agents forced
      /\ \A j \in R2 \cap RunningMatches(state) :
           \A w1 \in Range(state.matches[j].agents) :
             \A o \in resolveMatch(Cur, state.matches[j].id, w1) :
               /\ o.w.st.tournamentRun.status = "complete"
               /\ o.w.st.tournamentRun.next = <<w1>>
               /\ o.w.st.tournamentRun.pool = <<>>
               /\ Len(o.w.st.matches) = 3
               /\ RunningMatches(o.w.st) = {}
      /\ t.status = "complete" =>
           /\ t.round = 2
           /\ Len(state.matches) = 3
           /\ CompleteMatches(state) = 1..3
           /\ t.next = <<state.matches[3].winnerId>>
           /\ t.pool = <<>>

\* the bracket of four is complete: two round-1 matches and the final
C30_Witness ==
  /\ Len(state.tournamentRun.participants) = 4
  /\ state.tournamentRun.status = "complete"
  /\ Cardinality(RoundMatches(state, 1)) = 2
  /\ Cardinality(RoundMatches(state, 2)) = 1
  /\ state.tournamentRun.next = <<state.matches[3].winnerId>>

\* C31: a bracket has status complete exactly when its pool is empty and its
\* next holds exactly one id; a bracket that still has status running never
\* has an empty pool together with a single id in next.
C31_CompleteExactly ==
  state.tournamentRun.id # 0 =>
    (state.tournamentRun.status = "complete"
       <=> (state.tournamentRun.pool = <<>> /\ Len(state.tournamentRun.next) = 1))

\* t is a permutation of s
IsPermutation(s, t) ==
  /\ Len(s) = Len(t)
  /\ \A x \in Range(s) \cup Range(t) :
       Cardinality({i \in 1..Len(s) : s[i] = x})
         = Cardinality({i \in 1..Len(t) : t[i] = x})

\* the bracket as the tick's round test finds it: tickTournament called on a
\* pool of one id first moves that id to next and calls itself again
AtRoundTest(t) ==
  IF Len(t.pool) = 1 THEN [t EXCEPT !.next = Append(@, t.pool[1]), !.pool = <<>>]
  ELSE t

\* the worlds in which resolveMatch calls tickTournament and the tick goes on
\* to the bracket: a running match settled for one of its possible winners
TickPoints ==
  {w \in UNION {{settleMatch(Cur, i, winnerId) :
                    winnerId \in Range(state.matches[i].agents)} :
                  i \in RunningMatches(state)} :
     bracketRunning(w.st) /\ getCurrentMatch(w.st) = 0}

\* C32: the round number of a bracket starts at 1, never decreases, and
\* increases by exactly 1 only in a tick that finds pool empty and at least
\* 2 ids in next; in that tick the new pool is a permutation of the old next
\* and next becomes empty.
C32_RoundAdvance ==
  /\ [](\A w \in TickPoints : \A o \in tickRun(w.st.tournamentRun) :
          LET t == AtRoundTest(w.st.tournamentRun)
          IN  /\ o.run.round \in {t.round, t.round + 1}
              /\ o.run.round = t.round + 1 =>
                   /\ t.pool = <<>>
                   /\ Len(t.next) >= 2
                   /\ o.run.next = <<>>
                   /\ IsPermutation(o.pair \o o.run.pool, t.next))
  /\ [][/\ (state'.tournamentRun.id # 0
             /\ state'.tournamentRun.id # state.tournamentRun.id)
            => state'.tournamentRun.round = 1
        /\ (state.tournamentRun.id # 0
             /\ state'.tournamentRun.id = state.tournamentRun.id)
            => state'.tournamentRun.round
                 \in {state.tournamentRun.round, state.tournamentRun.round + 1}]_vars

\* a bracket in its second round, the match of that round running
C32_Witness ==
  /\ bracketRunning(state)
  /\ state.tournamentRun.round = 2
  /\ \E i \in RunningMatches(state) :
       state.matches[i].run = state.tournamentRun.id /\ state.matches[i].label = 2

\* the bracket match that precedes match j in the history of the same
\* bracket (empty for the bracket's first match)
PreviousBout(st, j) ==
  LET before == {i \in 1..(j - 1) : st.matches[i].run = st.matches[j].run}
  IN  {i \in before : \A k \in before : k <= i}

\* C33: a bracket match after the first is created only after the previous
\* bracket match is complete and its winner was appended to next: while a
\* bracket match runs, the previous match of that bracket is complete and its
\* winner is in next, in pool, or one of the two agents of the running match.
C33_WinnerCarried ==
  \A j \in RunningMatches(state) :
    (bracketRunning(state) /\ state.matches[j].run = state.tournamentRun.id) =>
      \A i \in PreviousBout(state, j) :
        /\ state.matches[i].status = "complete"
        /\ state.matches[i].winnerId
             \in Range(state.tournamentRun.next) \cup Range(state.tournamentRun.pool)
                   \cup Range(state.matches[j].agents)

\* the arena as a restart leaves it, with nobody arrived since
Pristine(st) == st.agents = <<>> /\ st.matches = <<>> /\ st.lobby = NullLobby

\* C34: the arena manager issues a restart only in an iteration where it is
\* armed and the polled snapshot shows no running match, no running bracket
\* and at most 1 agent; issuing a restart disarms it, it is armed again only
\* by a snapshot of a real run, and it never restarts an arena that has
\* stayed empty since the last restart.
C34_ManagerRestarts ==
  /\ [][(manager.pc = "loop" /\ manager'.pc = "restart") =>
          /\ manager.armed
          /\ ~matchRunning(state) /\ ~bracketRunning(state) /\ Len(state.agents) <= 1
          /\ ~manager'.armed]_vars
  /\ [][(~manager.armed /\ manager'.armed) =>
          (Len(state.agents) >= 2 \/ matchRunning(state) \/ bracketRunning(state))]_vars
  /\ [][(manager.pc = "restart" /\ state'.season.number # state.season.number)
          => ~Pristine(state)]_vars
  /\ [](manager.pc = "restart" => ~Pristine(state))

\* the manager has restarted the arena twice and is disarmed
C34_Witness ==
  /\ state.season.number = 3
  /\ manager.pc = "loop"
  /\ ~manager.armed
  /\ manager.lastRestartAt = 2

\* C35: resolving a match that StartQuickMatch started never changes the
\* bracket: pool, next, round and status are the same before and after,
\* also when a bracket is running at the time of the resolution.
C35_QuickMatchLeavesBracket ==
  \A i \in RunningMatches(state) :
    state.matches[i].run = 0 =>
      \A forcedWinnerId \in 0..MaxAgents :
        \A o \in resolveMatch(Cur, state.matches[i].id, forcedWinnerId) :
          o.w.st.tournamentRun = state.tournamentRun

\* the matches of the history that the bracket's ticks created
Bouts(st) == SelectSeq(st.matches, LAMBDA m : m.run = st.tournamentRun.id)

\* C36: with permadeath and no quick match, second hand-off or arena restart
\* interleaved, a bracket of n participants is complete after exactly n - 1
\* matches, every participant other than the champion loses exactly one match
\* and wins none after it, and at completion the champion is the only one of
\* the n participants still in the roster.
C36_SingleElimination ==
  LET t == state.tournamentRun
      bouts == Bouts(state)
      n == Len(t.participants)
  IN  /\ Len(bouts) <= n - 1
      /\ \A k \in 1..Len(bouts) : \A x \in Range(bouts[k].agents) :
           \* whoever plays has lost no earlier match of the bracket
           /\ x \in Range(t.participants)
           /\ \A j \in 1..(k - 1) : x # Loser(bouts[j])
      /\ t.status = "complete" =>
           /\ Len(bouts) = n - 1
           /\ \A k \in 1..Len(bouts) : bouts[k].status = "complete"
           /\ \A x \in Range(t.participants) \ {t.next[1]} :
                Cardinality({k \in 1..Len(bouts) : Loser(bouts[k]) = x}) = 1
           /\ \A k \in 1..Len(bouts) : Loser(bouts[k]) # t.next[1]
           /\ RosterIds(state) \cap Range(t.participants) = {t.next[1]}

\* a bracket of three is complete: one match, a bye, and the final
C36_Witness ==
  /\ state.tournamentRun.status = "complete"
  /\ Len(state.tournamentRun.participants) = 3
  /\ Len(Bouts(state)) = 2
  /\ RosterIds(state) = {state.tournamentRun.next[1]}

\* C37: the open lobby's participant list holds at most LOBBY_MAX_AGENTS ids,
\* in every reachable state and after every join, whatever joins, match
\* resolutions and failed hand-offs have occurred.
C37_LobbyCapacity ==
  /\ state.lobby.status = "open" => Len(state.lobby.agentIds) <= LOBBY_MAX_AGENTS
  /\ \A name \in Names : \A o \in arenaJoin(Cur, name) :
       o.w.st.lobby.status = "open" =>
         Len(o.w.st.lobby.agentIds) <= LOBBY_MAX_AGENTS

\* the sum of the counters of a counter object
RECURSIVE Total(_)
Total(obj) ==
  IF DOMAIN obj = {} THEN 0
  ELSE LET k == CHOOSE x \in DOMAIN obj : TRUE
       IN  obj[k] + Total([x \in DOMAIN obj \ {k} |-> obj[x]])

\* C38: in each of the two ledgers the sum of played over all agent ids is
\* twice the sum of wins over all agent ids.
C38_PlayedTwiceWins ==
  /\ Total(state.season.played) = 2 * Total(state.season.wins)
  /\ Total(state.allTime.played) = 2 * Total(state.allTime.wins)

\* a match was resolved before the season reset and another one after it
C38_Witness ==
  /\ state.season.number > 1
  /\ Total(state.season.wins) = 1
  /\ Total(state.allTime.wins) = 2

\* every agent id that the ledgers or the history can mention
LedgerIds == 1..MaxAgents

\* C39: starting from empty ledgers, for every agent id the season's played
\* and wins counters are at most the all-time ones, and an all-time counter
\* never decreases except by an arena restart with the all-time wipe.
C39_SeasonWithinAllTime ==
  /\ [](\A id \in LedgerIds :
          /\ Count(state.season.played, id) <= Count(state.allTime.played, id)
          /\ Count(state.season.wins, id) <= Count(state.allTime.wins, id))
  /\ [][\/ \A id \in LedgerIds :
             /\ Count(state'.allTime.played, id) >= Count(state.allTime.played, id)
             /\ Count(state'.allTime.wins, id) >= Count(state.allTime.wins, id)
        \/ /\ state'.allTime = [wins |-> EmptyMap, played |-> EmptyMap]
           /\ state'.agents = <<>>
           /\ state'.matches = <<>>
           /\ state'.season = NextSeason(state.season)]_vars

\* after a season reset an agent has played more all-time than this season,
\* and has played this season too
C39_Witness ==
  \E id \in LedgerIds :
    /\ Count(state.season.played, id) > 0
    /\ Count(state.season.played, id) < Count(state.allTime.played, id)

\* C40: a wallet-claim token goes from pending to claimed at most once: once
\* the claim is claimed or expired, no later or in-flight claim request
\* (signature verify or Privy claim) sets the claim's or its agent's
\* claimedByWallet again, or changes its status.
C40_ClaimedOnce ==
  [][claim.status \in {"claimed", "expired"} =>
       /\ claim'.status = claim.status
       /\ claim'.claimedByWallet = claim.claimedByWallet
       /\ claim'.agentWallet = claim.agentWallet]_vars

====
